---- MODULE Spec2Model ----
(***************************************************************************)
(* Model of ai_app/views.py (ChatView): the GET handler that fetches       *)
(* marine conditions through a cached, retrying session and falls back to  *)
(* the standard forecast endpoint, with clean_value and validate_json.     *)
(*                                                                         *)
(* Spec follows one request against a cache that earlier requests filled;  *)
(* SpecConcurrent runs two requests concurrently (Django builds one        *)
(* ChatView per request; the requests_cache backend '.cache' is shared).   *)
(* Numbers: coordinates are held in micro-degrees, readings as integers;   *)
(* NaN and the infinities are separate tags.                               *)
(***************************************************************************)
EXTENDS Integers, Sequences, FiniteSets, TLC

\* ---------------------------------------------------------------- bounds
MaxTicks == 2          \* how many times the clock advances in a run
TickStep == 1800       \* seconds added by one clock step
MaxFaults == 8         \* upstream faults of a run with one request: more
                       \* than one request can meet (six failed attempts,
                       \* one malformed payload or fallback failure)
FewFaults == 1         \* upstream faults of a run with concurrent requests

\* ------------------------------------------------------ program constants
expire_after == 3600   \* requests_cache.CachedSession(expire_after=3600)
retries == 5           \* retry(cache_session, retries=5, ...)
MaxMagnitude == 100000 \* 1e5 in clean_value
DefaultLatitude == 54544587   \* 54.544587
DefaultLongitude == 10227487  \* 10.227487
TestAttempts == 3      \* range(3) in test.py

\* Requests are numbered in their order of arrival.
Requests == {1, 2}

\* ------------------------------------------------------- python values
\* A Python value is a record [t, v]: t is the type tag, v the magnitude
\* (0 where the tag has none).
Val(t, v) == [t |-> t, v |-> v]
None == Val("none", 0)
PyFloat(n) == Val("float", n)
PyInt(n) == Val("int", n)
PyStr == Val("str", 0)
NaN == Val("nan", 0)
PosInf == Val("inf", 1)
NegInf == Val("inf", -1)

Abs(n) == IF n < 0 THEN -n ELSE n

\* isinstance(value, (int, float)): bool is a subclass of int; nan and inf
\* are floats.
IsIntOrFloat(value) == value.t \in {"int", "bool", "float", "nan", "inf"}

\* views.py clean_value, lines 29-41.
clean_value_ge(value) ==
    IF ~IsIntOrFloat(value) THEN None
    ELSE IF value.t \in {"nan", "inf"} THEN None
    ELSE IF Abs(value.v) >= MaxMagnitude THEN None
    ELSE PyFloat(value.v)

clean_value(value) ==
    IF ~IsIntOrFloat(value) THEN None
    ELSE IF value.t \in {"nan", "inf"} THEN None
    ELSE IF Abs(value.v) > MaxMagnitude THEN None
    ELSE PyFloat(value.v)


\* ------------------------------------------------------------ exceptions
\* Python exception classes that reach the handlers of get, with the
\* subclass relation the except clauses test.  requests' JSONDecodeError
\* derives from json.JSONDecodeError, a ValueError; RecursionError derives
\* from RuntimeError; the transport and HTTP errors of requests are OSErrors.
NoException == "NoException"
ValueErrors == {"ValueError", "JSONDecodeError"}
RuntimeErrors == {"RuntimeError", "RecursionError"}

NoData ==
    [weather_data |-> <<>>, latitude |-> None, longitude |-> None,
     endpoint_used |-> "none"]

NoResponse == [status |-> 0, kind |-> "none", generic |-> FALSE,
               exc |-> NoException, data |-> NoData]

\* Response(body, status=...) of rest_framework.
Response(kind, status, generic, exc, data) ==
    [status |-> status, kind |-> kind, generic |-> generic, exc |-> exc,
     data |-> data]

\* An exception that leaves get without being caught.
Raised(exc) == Response("raised", 0, FALSE, exc, NoData)

\* views.py get, lines 188-199: the three except clauses, in order.
HandleException(exc) ==
    IF exc \in ValueErrors
        THEN Response("error", 400, FALSE, exc, NoData)
    ELSE IF exc \in RuntimeErrors
        THEN Response("error", 500, FALSE, exc, NoData)
    ELSE Response("error", 500, TRUE, exc, NoData)

\* --------------------------------------------------------- serialization
\* json.dumps(data): a value json cannot encode raises TypeError, a
\* container that holds itself raises ValueError (circular reference), and
\* nesting deeper than the interpreter's recursion limit raises
\* RecursionError.  NaN and the infinities are encoded (allow_nan).
Leaves(data) ==
    {data.weather_data[f] : f \in DOMAIN data.weather_data}
        \cup {data.latitude, data.longitude}

JsonDumps(data) ==
    IF \E l \in Leaves(data) : l.t = "object" THEN "TypeError"
    ELSE IF \E l \in Leaves(data) : l.t = "circular" THEN "ValueError"
    ELSE IF \E l \in Leaves(data) : l.t = "deep" THEN "RecursionError"
    ELSE "ok"

\* views.py validate_json, lines 43-53: [raised, value, empty, logged].
\* Only TypeError and ValueError are caught.
validate_json(data) ==
    LET r == JsonDumps(data) IN
    IF r = "ok"
        THEN [raised |-> NoException, empty |-> FALSE, data |-> data,
              logged |-> FALSE]
    ELSE IF r \in {"TypeError", "ValueError"}
        THEN [raised |-> NoException, empty |-> TRUE, data |-> NoData,
              logged |-> TRUE]
    ELSE [raised |-> r, empty |-> FALSE, data |-> NoData, logged |-> FALSE]

\* views.py get, lines 182-186 with the handlers of 188-199: the response
\* that ends a request whose payload was assembled.
Finish(data) ==
    LET v == validate_json(data) IN
    IF v.raised # NoException THEN HandleException(v.raised)
    ELSE IF v.empty THEN Response("empty", 200, FALSE, NoException, NoData)
    ELSE Response("data", 200, FALSE, NoException, v.data)


\* ------------------------------------------------------- request inputs
\* A query parameter is omitted ("absent") or a string.  float() parses the
\* strings of StrToFloat and raises ValueError on any other string.
StrToFloat == [s \in {"52.52", "13.40"} |->
                  IF s = "52.52" THEN 52520000 ELSE 13400000]

LatInputs == {"absent", "52.52", "abc"}
LonInputs == {"absent", "13.40", "abc"}

\* float(x) succeeds: x is the float default or a numeric string.
Parses(raw) == raw = "absent" \/ raw \in DOMAIN StrToFloat

\* request.query_params.get(name, default) followed by float(...).
ToFloat_default(raw, default) == default

ToFloat(raw, default) == IF raw = "absent" THEN default ELSE StrToFloat[raw]

\* The land/sea mask of the LandWaterGate: an external lookup the handler
\* never consults.
LandCoordinates == {<<52520000, DefaultLongitude>>, <<52520000, 13400000>>}
IsLand(lat, lon) == <<lat, lon>> \in LandCoordinates

\* ---------------------------------------------------- upstream payloads
MarineFields ==
    <<"wave_height", "wave_direction", "wave_period", "wind_wave_height",
      "wind_wave_direction", "wind_wave_period", "wind_wave_peak_period",
      "ocean_current_velocity", "ocean_current_direction">>

ForecastFields ==
    <<"temperature_2m", "relativehumidity_2m", "windspeed", "winddirection",
      "weathercode", "time">>

Range(seq) == {seq[i] : i \in 1..Len(seq)}

\* What the marine endpoint answers with status 200: the decoded list of
\* WeatherApiResponse messages.  shape "empty" is an empty list, "nocurrent"
\* a message without a current section, "ok" a message whose current
\* section holds the nine variables (flatbuffers floats), "short" a message
\* whose current section holds fewer.
GoodVars ==
    <<PyFloat(0), PyFloat(1), PyFloat(-1), PyFloat(100000), PyFloat(-100000),
      PyFloat(2), PyFloat(3), PyFloat(4), PyFloat(5)>>
WildVars ==
    <<NaN, PosInf, NegInf, PyFloat(100001), PyFloat(-100001),
      PyFloat(0), NaN, PyFloat(100000), PyFloat(99999)>>
ShortVars == <<PyFloat(0), PyFloat(1), PyFloat(100001)>>
NoVars == <<>>

MarinePayloads ==
    {[shape |-> "ok", vars |-> GoodVars], [shape |-> "ok", vars |-> WildVars],
     [shape |-> "empty", vars |-> NoVars],
     [shape |-> "nocurrent", vars |-> NoVars],
     [shape |-> "short", vars |-> ShortVars]}
NoPayload == [shape |-> "none", vars |-> NoVars]

\* What the forecast endpoint answers with status 200 and a JSON body:
\* an object with a current_weather object, an object without the key, an
\* object whose current_weather is null, or a body that is not an object.
ForecastBodies == {"full", "no_current_weather", "null_current_weather",
                   "not_an_object"}

\* cw.get(name) on the decoded current_weather section.
CwGet(body, name) ==
    IF body = "full"
        THEN (CASE name = "temperature" -> PyFloat(27)
                [] name = "windspeed" -> PyFloat(5)
                [] name = "winddirection" -> PyInt(80)
                [] name = "weathercode" -> PyInt(3)
                [] OTHER -> PyStr)
    ELSE None

\* Outcome of one network attempt of the primary session, as urllib3's
\* Retry sees it: a response with status 200, a transport error, a status
\* of the retried list (500, 502, 504), or another non-success status.
AttemptFailures == {"transport", "status_retried", "status_other"}

\* Outcome of the single requests.get of the fallback.
FallbackFailures == {"transport", "http_error", "bad_json"}


\* ----------------------------------------------------------------- state
VARIABLES
    active,         \* the requests that arrive in this run
    lon_inputs,     \* the longitude parameters that arrive in this run
    payloads,       \* what the marine endpoint answers with in this run
    faults_left,    \* upstream faults the environment may still inject
    pc,             \* where each request stands in get
    latitude,       \* raw query parameter of each request
    longitude,      \* raw query parameter of each request
    issued_at,      \* clock value when the request arrived
    issued_after,   \* the requests that had returned when this one arrived
    marine_calls,   \* calls of fetch_marine_data made by the request
    lookup_at,      \* clock value of the request's cache lookup
    fetched_at,     \* clock value when the network answered with 200
    attempts,       \* network attempts of the primary session
    marine_data,    \* what fetch_marine_data got (NoPayload before)
    from_cache,     \* marine_data was served by the cache
    primary_error,  \* the exception that ended the primary path
    fallback_calls, \* calls of fetch_fallback_data (one requests.get each)
    fallback_result,\* outcome of the fallback call
    response,       \* what get returned (NoResponse before)
    cache,          \* the shared requests_cache backend
    now,            \* the clock, in seconds
    log,            \* the log events of each request, in order
    fn_pc,          \* function harness: "off", "input", "cleaned", "done"
    fn_value,       \* function harness: argument of clean_value
    fn_cleaned,     \* function harness: result of clean_value
    fn_data,        \* function harness: candidate payload
    fn_response,    \* function harness: response built from fn_data
    t_pc,           \* test.py: "off", "loop", "returned", "raised"
    t_i,            \* test.py: the loop variable i
    t_history,      \* test.py: outcome of each attempt, in order
    t_sleeps,       \* test.py: the argument of each time.sleep, in order
    t_result        \* test.py: what fetch_marine_data returned

envvars == <<active, lon_inputs, payloads, faults_left>>
reqvars == <<pc, latitude, longitude, issued_at, issued_after, marine_calls,
             lookup_at, fetched_at, attempts, marine_data, from_cache, primary_error,
             fallback_calls, fallback_result, response, cache, now, log>>
fnvars == <<fn_pc, fn_value, fn_cleaned, fn_data, fn_response>>
testvars == <<t_pc, t_i, t_history, t_sleeps, t_result>>
vars == <<envvars, reqvars, fnvars, testvars>>

\* A log event: its level, whether the message holds the input coordinate,
\* and the exception it reports.
\* logger.warning(..., latitude, longitude, marine_err), lines 145-149.
WarningEvent(exc) == [level |-> "warning", coords |-> TRUE, cause |-> exc]
\* logger.exception("...: %s", e), lines 189, 192, 195: the exception only.
HandlerEvent(exc) == [level |-> "exception", coords |-> FALSE, cause |-> exc]
\* logger.error("Non-serializable data encountered: %s", data), line 52:
\* the payload with its coordinate, and the traceback.
ValidateEvent == [level |-> "error", coords |-> TRUE, cause |-> "TypeError"]

\* What the end of get logs for the response it returns: the handlers of
\* lines 188-199 log the exception they caught, validate_json logs when it
\* substitutes the empty object, and an exception that escapes get is not
\* logged by get.
ResponseLog(resp) ==
    IF resp.kind = "error" THEN <<HandlerEvent(resp.exc)>>
    ELSE IF resp.kind = "empty" THEN <<ValidateEvent>>
    ELSE <<>>

\* lat_f = float(latitude), lon_f = float(longitude), lines 106-115.
lat_f(r) == ToFloat(latitude[r], DefaultLatitude)
lon_f(r) == ToFloat(longitude[r], DefaultLongitude)

\* The cache key is the outbound request: the fixed parameters of
\* fetch_marine_data plus the coordinate.
Keys == {DefaultLatitude, 52520000} \X {DefaultLongitude, 13400000}
Key(r) == <<lat_f(r), lon_f(r)>>
NoEntry == [present |-> FALSE, payload |-> NoPayload, expires |-> 0]
Entry(payload, expires) ==
    [present |-> TRUE, payload |-> payload, expires |-> expires]

\* requests_cache: an entry is served while the clock is before its expiry.
Fresh_never(entry, t) == FALSE
Fresh_stale(entry, t) == entry.present

Fresh(entry, t) == entry.present /\ t < entry.expires

\* Entries that requests before this run left in the cache: written at
\* most expire_after before the run starts.
EarlierEntries ==
    {NoEntry} \cup {Entry(p, e) : p \in MarinePayloads,
                                  e \in {0, TickStep, expire_after}}

\* The coordinates earlier requests asked for.
EarlierKeys == {<<DefaultLatitude, DefaultLongitude>>, <<52520000, 13400000>>}

InitRequests ==
    /\ pc = [r \in Requests |-> "idle"]
    /\ latitude = [r \in Requests |-> "absent"]
    /\ longitude = [r \in Requests |-> "absent"]
    /\ issued_at = [r \in Requests |-> 0]
    /\ issued_after = [r \in Requests |-> {}]
    /\ marine_calls = [r \in Requests |-> 0]
    /\ lookup_at = [r \in Requests |-> 0]
    /\ fetched_at = [r \in Requests |-> 0]
    /\ attempts = [r \in Requests |-> 0]
    /\ marine_data = [r \in Requests |-> NoPayload]
    /\ from_cache = [r \in Requests |-> FALSE]
    /\ primary_error = [r \in Requests |-> NoException]
    /\ fallback_calls = [r \in Requests |-> 0]
    /\ fallback_result = [r \in Requests |-> "none"]
    /\ response = [r \in Requests |-> NoResponse]
    /\ now = 0
    /\ log = [r \in Requests |-> <<>>]

InitFnOff ==
    /\ fn_pc = "off"
    /\ fn_value = None
    /\ fn_cleaned = None
    /\ fn_data = NoData
    /\ fn_response = NoResponse

InitTestOff ==
    /\ t_pc = "off"
    /\ t_i = 0
    /\ t_history = <<>>
    /\ t_sleeps = <<>>
    /\ t_result = "none"

\* One request, served by a process in whose cache an earlier request may
\* have left an entry.
Init ==
    /\ active = {1}
    /\ lon_inputs = LonInputs
    /\ payloads = MarinePayloads
    /\ faults_left = MaxFaults
    /\ InitRequests
    /\ \E k \in EarlierKeys, e \in EarlierEntries :
          cache = [j \in Keys |-> IF j = k THEN e ELSE NoEntry]
    /\ InitFnOff
    /\ InitTestOff

\* Two requests, served by a process that starts with an empty cache; their
\* longitude is omitted or malformed, and the marine endpoint answers with
\* a well-formed payload, an empty list or no current section.
InitConcurrent ==
    /\ active = Requests
    /\ lon_inputs = LonInputs \ {"13.40"}
    /\ payloads = {p \in MarinePayloads :
                      p.vars \in {GoodVars, NoVars}}
    /\ faults_left = FewFaults
    /\ InitRequests
    /\ cache = [k \in Keys |-> NoEntry]
    /\ InitFnOff
    /\ InitTestOff

\* ------------------------------------------------------------ operations
\* A request arrives with its two query parameters (lines 106-107).
Receive(r) ==
    /\ r \in active
    /\ pc[r] = "idle"
    /\ \A q \in Requests : q < r => pc[q] # "idle"
    /\ \E la \in LatInputs, lo \in lon_inputs :
        /\ latitude' = [latitude EXCEPT ![r] = la]
        /\ longitude' = [longitude EXCEPT ![r] = lo]
    /\ issued_at' = [issued_at EXCEPT ![r] = now]
    /\ issued_after' = [issued_after EXCEPT
                           ![r] = {q \in Requests : pc[q] = "done"}]
    /\ pc' = [pc EXCEPT ![r] = "received"]
    /\ UNCHANGED <<marine_calls, lookup_at, fetched_at, attempts,
                   marine_data,
                   from_cache, primary_error, fallback_calls,
                   fallback_result, response, cache, now, log, envvars, fnvars,
                   testvars>>

\* Lines 109-115 with the handler of 188-190.  print(float(latitude)) at
\* line 111 stands before the try: a latitude that does not parse raises
\* ValueError out of get.  Inside the try, float(longitude) is caught.
ParseCoordinates_landgate(r) ==
    /\ pc[r] = "received"
    /\ IF ~Parses(latitude[r])
          THEN /\ response' = [response EXCEPT ![r] = Raised("ValueError")]
               /\ pc' = [pc EXCEPT ![r] = "done"]
       ELSE IF ~Parses(longitude[r]) \/ IsLand(lat_f(r), lon_f(r))
          THEN /\ response' = [response EXCEPT
                                  ![r] = HandleException("ValueError")]
               /\ pc' = [pc EXCEPT ![r] = "done"]
       ELSE /\ pc' = [pc EXCEPT ![r] = "marine"]
            /\ UNCHANGED response
    /\ log' = [log EXCEPT ![r] = @ \o ResponseLog(response'[r])]
    /\ UNCHANGED <<latitude, longitude, issued_at, issued_after,
                   marine_calls, lookup_at, fetched_at, attempts,
                   marine_data, from_cache, primary_error, fallback_calls,
                   fallback_result, cache, now, envvars, fnvars, testvars>>

ParseCoordinates(r) ==
    /\ pc[r] = "received"
    /\ IF ~Parses(latitude[r])
          THEN /\ response' = [response EXCEPT ![r] = Raised("ValueError")]
               /\ pc' = [pc EXCEPT ![r] = "done"]
       ELSE IF ~Parses(longitude[r])
          THEN /\ response' = [response EXCEPT
                                  ![r] = HandleException("ValueError")]
               /\ pc' = [pc EXCEPT ![r] = "done"]
       ELSE /\ pc' = [pc EXCEPT ![r] = "marine"]
            /\ UNCHANGED response
    /\ log' = [log EXCEPT ![r] = @ \o ResponseLog(response'[r])]
    /\ UNCHANGED <<latitude, longitude, issued_at, issued_after,
                   marine_calls, lookup_at, fetched_at, attempts,
                   marine_data,
                   from_cache, primary_error, fallback_calls,
                   fallback_result, cache, now, envvars, fnvars, testvars>>

\* fetch_marine_data, line 78: the cached session looks the request up
\* first; a fresh entry is returned without a network call.
MarineLookup(r) ==
    /\ pc[r] = "marine"
    /\ marine_calls' = [marine_calls EXCEPT ![r] = @ + 1]
    /\ lookup_at' = [lookup_at EXCEPT ![r] = now]
    /\ IF Fresh(cache[Key(r)], now)
          THEN /\ marine_data' = [marine_data EXCEPT
                                     ![r] = cache[Key(r)].payload]
               /\ from_cache' = [from_cache EXCEPT ![r] = TRUE]
               /\ pc' = [pc EXCEPT ![r] = "extract"]
          ELSE /\ pc' = [pc EXCEPT ![r] = "network"]
               /\ UNCHANGED <<marine_data, from_cache>>
    /\ UNCHANGED <<latitude, longitude, issued_at, issued_after, attempts,
                   fetched_at, primary_error, fallback_calls,
                   fallback_result, response, cache, now, log, envvars,
                   fnvars, testvars>>

\* retry(cache_session, retries=5, backoff_factor=0.2), line 26: urllib3's
\* Retry(total=5) allows five retries after the first attempt.  Transport
\* errors and the statuses 500, 502, 504 are retried; `failed` counts the
\* failed attempts so far, this one included.
ShouldRetry_total(failure, failed) ==
    failure \in {"transport", "status_retried"} /\ failed <= retries + 1

ShouldRetry(failure, failed) ==
    failure \in {"transport", "status_retried"} /\ failed <= retries

\* What weather_api raises when the session gives up or returns a
\* non-success status.
PrimaryException(failure) ==
    IF failure = "status_other" THEN "HTTPError" ELSE "RetryError"

\* One network attempt of the primary session (line 78).  A 200 response
\* is written to the cache with expire_after and returned.
MarineAttempt_cachefail(r) ==
    /\ pc[r] = "network"
    /\ attempts' = [attempts EXCEPT ![r] = @ + 1]
    /\ \/ \E p \in payloads :
            /\ p.shape # "ok" => faults_left > 0
            /\ faults_left' = IF p.shape # "ok" THEN faults_left - 1
                              ELSE faults_left
            /\ cache' = [cache EXCEPT
                            ![Key(r)] = Entry(p, now + expire_after)]
            /\ marine_data' = [marine_data EXCEPT ![r] = p]
            /\ fetched_at' = [fetched_at EXCEPT ![r] = now]
            /\ pc' = [pc EXCEPT ![r] = "extract"]
            /\ UNCHANGED primary_error
       \/ \E f \in AttemptFailures :
            /\ faults_left > 0
            /\ faults_left' = faults_left - 1
            /\ IF ShouldRetry(f, attempts'[r])
                  THEN UNCHANGED <<pc, primary_error>>
                  ELSE /\ pc' = [pc EXCEPT ![r] = "fallback"]
                       /\ primary_error' = [primary_error EXCEPT
                                               ![r] = PrimaryException(f)]
            /\ cache' = [cache EXCEPT ![Key(r)] =
                    Entry([shape |-> "empty", vars |-> NoVars],
                          now + expire_after)]
            /\ UNCHANGED <<marine_data, fetched_at>>
    /\ log' = IF pc'[r] = "fallback"
                 THEN [log EXCEPT
                          ![r] = Append(@, WarningEvent(primary_error'[r]))]
              ELSE log
    /\ UNCHANGED <<active, lon_inputs, payloads, latitude, longitude,
                   issued_at, issued_after,
                   marine_calls, lookup_at, from_cache, fallback_calls,
                   fallback_result, response, now, fnvars, testvars>>

MarineAttempt(r) ==
    /\ pc[r] = "network"
    /\ attempts' = [attempts EXCEPT ![r] = @ + 1]
    /\ \/ \E p \in payloads :
            /\ p.shape # "ok" => faults_left > 0
            /\ faults_left' = IF p.shape # "ok" THEN faults_left - 1
                              ELSE faults_left
            /\ cache' = [cache EXCEPT
                            ![Key(r)] = Entry(p, now + expire_after)]
            /\ marine_data' = [marine_data EXCEPT ![r] = p]
            /\ fetched_at' = [fetched_at EXCEPT ![r] = now]
            /\ pc' = [pc EXCEPT ![r] = "extract"]
            /\ UNCHANGED primary_error
       \/ \E f \in AttemptFailures :
            /\ faults_left > 0
            /\ faults_left' = faults_left - 1
            /\ IF ShouldRetry(f, attempts'[r])
                  THEN UNCHANGED <<pc, primary_error>>
                  ELSE /\ pc' = [pc EXCEPT ![r] = "fallback"]
                       /\ primary_error' = [primary_error EXCEPT
                                               ![r] = PrimaryException(f)]
            /\ UNCHANGED <<cache, marine_data, fetched_at>>
    /\ log' = IF pc'[r] = "fallback"
                 THEN [log EXCEPT
                          ![r] = Append(@, WarningEvent(primary_error'[r]))]
              ELSE log
    /\ UNCHANGED <<active, lon_inputs, payloads, latitude, longitude,
                   issued_at, issued_after,
                   marine_calls, lookup_at, from_cache, fallback_calls,
                   fallback_result, response, now, fnvars, testvars>>

\* Lines 124-141: the nine cleaned fields and the envelope of the marine
\* path.  Latitude() and Longitude() are the coordinate the upstream echoes.
FieldIndex(f) == CHOOSE j \in 1..Len(MarineFields) : MarineFields[j] = f

MarineResponseData_raw(payload, lat, lon) ==
    [weather_data |->
        [f \in Range(MarineFields) |-> payload.vars[FieldIndex(f)]],
     latitude |-> PyFloat(lat),
     longitude |-> PyFloat(lon),
     endpoint_used |-> "marine"]

MarineResponseData(payload, lat, lon) ==
    [weather_data |->
        [f \in Range(MarineFields) |->
            clean_value(payload.vars[FieldIndex(f)])],
     latitude |-> PyFloat(lat),
     longitude |-> PyFloat(lon),
     endpoint_used |-> "marine"]

\* response[0] and marine_data.Current() (lines 82, 120): an empty list
\* raises IndexError, a missing current section AttributeError.
ExtractException(payload) ==
    IF payload.shape = "empty" THEN "IndexError"
    ELSE IF payload.shape = "nocurrent" THEN "AttributeError"
    ELSE NoException

\* current.Variables(j).Value() for j past the end of the vector (lines
\* 122-134): the flatbuffers accessor does not check j against the length
\* of the vector, it decodes whatever bytes lie there.  The read raises
\* struct.error when it leaves the buffer and yields a stray float
\* otherwise.
StrayValues == {PyFloat(5), NaN}

\* The outcomes of reading the nine variables of a payload: the exception
\* raised, or the nine raw values read.
Reads(payload) ==
    IF ExtractException(payload) # NoException
        THEN {[exc |-> ExtractException(payload), vars |-> NoVars]}
    ELSE IF Len(payload.vars) < Len(MarineFields)
        THEN {[exc |-> "struct.error", vars |-> NoVars]}
             \cup {[exc |-> NoException,
                    vars |-> [j \in 1..Len(MarineFields) |->
                                IF j <= Len(payload.vars)
                                    THEN payload.vars[j] ELSE v]] :
                      v \in StrayValues}
    ELSE {[exc |-> NoException, vars |-> payload.vars]}

\* Lines 82 and 120-141, then 182-186: extraction, assembly and the
\* response of the marine path; any exception goes to the fallback (143).
MarineExtract_fallthrough(r) ==
    /\ pc[r] = "extract"
    /\ \E read \in Reads(marine_data[r]) :
        IF read.exc # NoException
          THEN /\ primary_error' = [primary_error EXCEPT ![r] = read.exc]
               /\ pc' = [pc EXCEPT ![r] = "fallback"]
               /\ UNCHANGED response
          ELSE /\ pc' = [pc EXCEPT ![r] = "fallback"]
               /\ UNCHANGED <<response, primary_error>>
    /\ log' = IF pc'[r] = "fallback"
                 THEN [log EXCEPT
                          ![r] = Append(@, WarningEvent(primary_error'[r]))]
              ELSE [log EXCEPT ![r] = @ \o ResponseLog(response'[r])]
    /\ UNCHANGED <<latitude, longitude, issued_at, issued_after,
                   marine_calls, lookup_at, fetched_at, attempts,
                   marine_data,
                   from_cache, fallback_calls, fallback_result, cache, now,
                   envvars, fnvars, testvars>>

MarineExtract(r) ==
    /\ pc[r] = "extract"
    /\ \E read \in Reads(marine_data[r]) :
        IF read.exc # NoException
          THEN /\ primary_error' = [primary_error EXCEPT ![r] = read.exc]
               /\ pc' = [pc EXCEPT ![r] = "fallback"]
               /\ UNCHANGED response
          ELSE /\ response' = [response EXCEPT ![r] =
                    Finish(MarineResponseData(
                               [shape |-> "ok", vars |-> read.vars],
                               lat_f(r), lon_f(r)))]
               /\ pc' = [pc EXCEPT ![r] = "done"]
               /\ UNCHANGED primary_error
    /\ log' = IF pc'[r] = "fallback"
                 THEN [log EXCEPT
                          ![r] = Append(@, WarningEvent(primary_error'[r]))]
              ELSE [log EXCEPT ![r] = @ \o ResponseLog(response'[r])]
    /\ UNCHANGED <<latitude, longitude, issued_at, issued_after,
                   marine_calls, lookup_at, fetched_at, attempts,
                   marine_data,
                   from_cache, fallback_calls, fallback_result, cache, now,
                   envvars, fnvars, testvars>>

\* Lines 167-180: the envelope of the fallback path.
ForecastResponseData_marine(body, lat, lon) ==
    [weather_data |->
        [f \in Range(ForecastFields) |->
            CASE f = "temperature_2m" -> CwGet(body, "temperature")
              [] f = "relativehumidity_2m" -> None
              [] f = "windspeed" -> CwGet(body, "windspeed")
              [] f = "winddirection" -> CwGet(body, "winddirection")
              [] f = "weathercode" -> CwGet(body, "weathercode")
              [] OTHER -> CwGet(body, "time")],
     latitude |-> PyFloat(lat),
     longitude |-> PyFloat(lon),
     endpoint_used |-> "marine"]

ForecastResponseData(body, lat, lon) ==
    [weather_data |->
        [f \in Range(ForecastFields) |->
            CASE f = "temperature_2m" -> CwGet(body, "temperature")
              [] f = "relativehumidity_2m" -> None
              [] f = "windspeed" -> CwGet(body, "windspeed")
              [] f = "winddirection" -> CwGet(body, "winddirection")
              [] f = "weathercode" -> CwGet(body, "weathercode")
              [] OTHER -> CwGet(body, "time")],
     latitude |-> PyFloat(lat),
     longitude |-> PyFloat(lon),
     endpoint_used |-> "standard_forecast"]

\* What fetch_fallback_data raises (lines 98-100): requests.get raises a
\* ConnectionError or Timeout, raise_for_status an HTTPError, r.json() a
\* JSONDecodeError.
FallbackException(failure) ==
    CASE failure = "transport" -> "ConnectionError"
      [] failure = "http_error" -> "HTTPError"
      [] OTHER -> "JSONDecodeError"

\* fallback_dict.get(...) and cw.get(...) (lines 167-178) raise
\* AttributeError when the body or its current_weather is not an object.
AssembleException_strict(body) ==
    IF body \in {"not_an_object", "null_current_weather",
                 "no_current_weather"}
        THEN "AttributeError"
    ELSE NoException

AssembleException(body) ==
    IF body \in {"not_an_object", "null_current_weather"}
        THEN "AttributeError"
    ELSE NoException

\* Lines 150-186 with the handlers of 188-199: the one call of
\* fetch_fallback_data, the assembly and the response of the fallback path.
Fallback(r) ==
    /\ pc[r] = "fallback"
    /\ fallback_calls' = [fallback_calls EXCEPT ![r] = @ + 1]
    /\ \/ \E f \in FallbackFailures :
            /\ faults_left > 0
            /\ faults_left' = faults_left - 1
            /\ fallback_result' = [fallback_result EXCEPT ![r] = f]
            /\ response' = [response EXCEPT
                    ![r] = HandleException(FallbackException(f))]
       \/ \E b \in ForecastBodies :
            /\ AssembleException(b) # NoException => faults_left > 0
            /\ faults_left' = IF AssembleException(b) # NoException
                              THEN faults_left - 1 ELSE faults_left
            /\ fallback_result' = [fallback_result EXCEPT ![r] = b]
            /\ response' = [response EXCEPT ![r] =
                    IF AssembleException(b) # NoException
                        THEN HandleException(AssembleException(b))
                    ELSE Finish(ForecastResponseData(b, lat_f(r),
                                                     lon_f(r)))]
    /\ pc' = [pc EXCEPT ![r] = "done"]
    /\ log' = [log EXCEPT ![r] = @ \o ResponseLog(response'[r])]
    /\ UNCHANGED <<active, lon_inputs, payloads, latitude, longitude,
                   issued_at, issued_after,
                   marine_calls, lookup_at, fetched_at, attempts,
                   marine_data,
                   from_cache, primary_error, cache, now, fnvars, testvars>>

\* The clock advances.
Tick ==
    /\ now < MaxTicks * TickStep
    /\ now' = now + TickStep
    /\ UNCHANGED <<pc, latitude, longitude, issued_at, issued_after,
                   marine_calls, lookup_at, fetched_at, attempts,
                   marine_data,
                   from_cache, primary_error, fallback_calls,
                   fallback_result, response, cache, log, envvars, fnvars,
                   testvars>>

Next ==
    \/ \E r \in Requests : Receive(r)
    \/ \E r \in Requests : ParseCoordinates(r)
    \/ \E r \in Requests : MarineLookup(r)
    \/ \E r \in Requests : MarineAttempt(r)
    \/ \E r \in Requests : MarineExtract(r)
    \/ \E r \in Requests : Fallback(r)
    \/ Tick

Spec == Init /\ [][Next]_vars

SpecConcurrent == InitConcurrent /\ [][Next]_vars

\* ------------------------------------------------------ function harness
\* clean_value and validate_json applied to arbitrary arguments.
Magnitudes == {0, 5, 99999, 100000, 100001}

CleanInputs ==
    {None, PyStr, Val("list", 0), Val("bool", 1), Val("bool", 0),
     NaN, PosInf, NegInf}
        \cup {PyInt(n) : n \in Magnitudes} \cup {PyInt(-n) : n \in Magnitudes}
        \cup {PyFloat(n) : n \in Magnitudes}
        \cup {PyFloat(-n) : n \in Magnitudes}

\* Values json.dumps cannot write: an object of an unsupported type, a
\* container that holds itself, a container nested beyond the recursion
\* limit.
Unserializable == {Val("object", 0), Val("circular", 0), Val("deep", 0)}

BasePayloads ==
    {MarineResponseData([shape |-> "ok", vars |-> WildVars],
                        DefaultLatitude, DefaultLongitude),
     ForecastResponseData("full", DefaultLatitude, DefaultLongitude)}

\* The candidate payloads: a payload get assembles, as it is or with one
\* value replaced by one json.dumps cannot write.
CandidatePayloads ==
    BasePayloads
        \cup {[d EXCEPT !.latitude = u] :
                d \in BasePayloads, u \in Unserializable}
        \cup {[d EXCEPT !.longitude = u] :
                d \in BasePayloads, u \in Unserializable}
        \cup UNION {{[d EXCEPT !.weather_data[f] = u] :
                        f \in DOMAIN d.weather_data, u \in Unserializable} :
                    d \in BasePayloads}

InitFn ==
    /\ active = {}
    /\ lon_inputs = {}
    /\ payloads = {}
    /\ faults_left = 0
    /\ InitRequests
    /\ cache = [k \in Keys |-> NoEntry]
    /\ fn_pc = "input"
    /\ fn_value \in CleanInputs
    /\ fn_data \in CandidatePayloads
    /\ fn_cleaned = None
    /\ fn_response = NoResponse
    /\ InitTestOff

\* self.clean_value(value), lines 29-41.
FnClean ==
    /\ fn_pc = "input"
    /\ fn_cleaned' = clean_value(fn_value)
    /\ fn_pc' = "cleaned"
    /\ UNCHANGED <<fn_value, fn_data, fn_response, envvars, reqvars, testvars>>

\* Response(self.validate_json(response_data), status=200), lines 182-186,
\* under the handlers of lines 188-199.
FnRespond ==
    /\ fn_pc = "cleaned"
    /\ fn_response' = Finish(fn_data)
    /\ fn_pc' = "done"
    /\ UNCHANGED <<fn_value, fn_data, fn_cleaned, envvars, reqvars, testvars>>

NextFn == FnClean \/ FnRespond

SpecFn == InitFn /\ [][NextFn]_vars

\* ------------------------------------------------------------- test.py
\* test.py fetch_marine_data, lines 31-42: three attempts at the marine
\* endpoint with requests.get, a sleep of 2 ** i after failed attempt i.
RECURSIVE Pow2(_)
Pow2(i) == IF i = 0 THEN 1 ELSE 2 * Pow2(i - 1)

\* time.sleep(2 ** i), line 40.
Backoff_flat(i) == 1

Backoff(i) == Pow2(i)

\* What response.json() returns on success.
TestPayloads == {"payload_a", "payload_b"}

\* What an attempt raises: requests.get a ConnectionError or Timeout,
\* raise_for_status an HTTPError, response.json() a JSONDecodeError.
TestExceptions == {"ConnectionError", "Timeout", "HTTPError",
                   "JSONDecodeError"}

\* except requests.exceptions.RequestException, line 38.  The transport
\* and HTTP errors are RequestExceptions; the JSONDecodeError of
\* response.json() is one from requests 2.27 on and a plain ValueError
\* before, so either can happen.
Caught(exc) == IF exc = "JSONDecodeError" THEN BOOLEAN ELSE {TRUE}

Outcome(payload, exc, caught) ==
    [payload |-> payload, exc |-> exc, caught |-> caught]

InitTest ==
    /\ active = {}
    /\ lon_inputs = {}
    /\ payloads = {}
    /\ faults_left = 0
    /\ InitRequests
    /\ cache = [k \in Keys |-> NoEntry]
    /\ InitFnOff
    /\ t_pc = "loop"
    /\ t_i = 0
    /\ t_history = <<>>
    /\ t_sleeps = <<>>
    /\ t_result = "none"

\* One iteration of the loop of lines 31-40, with the raise of line 42
\* when the loop runs out.
TestAttempt ==
    /\ t_pc = "loop"
    /\ t_i < TestAttempts
    /\ \/ \E p \in TestPayloads :
            /\ t_history' = Append(t_history, Outcome(p, NoException, FALSE))
            /\ t_result' = p
            /\ t_pc' = "returned"
            /\ UNCHANGED <<t_i, t_sleeps>>
       \/ \E e \in TestExceptions : \E c \in Caught(e) :
            /\ t_history' = Append(t_history, Outcome("none", e, c))
            /\ IF c
                  THEN /\ t_sleeps' = Append(t_sleeps, Backoff(t_i))
                       /\ t_i' = t_i + 1
                       /\ t_pc' = IF t_i + 1 < TestAttempts
                                     THEN "loop" ELSE "raised"
                       /\ t_result' = IF t_i + 1 < TestAttempts
                                         THEN t_result ELSE "RuntimeError"
                  ELSE /\ t_pc' = "raised"
                       /\ t_result' = e
                       /\ UNCHANGED <<t_i, t_sleeps>>
    /\ UNCHANGED <<envvars, reqvars, fnvars>>

\* The __main__ block, lines 45-51: the payload is logged, any exception
\* is caught and logged as a failed test.
TestMain ==
    /\ t_pc \in {"returned", "raised"}
    /\ t_pc' = IF t_pc = "returned" THEN "passed" ELSE "failed"
    /\ UNCHANGED <<t_i, t_history, t_sleeps, t_result, envvars, reqvars,
                   fnvars>>

NextTest == TestAttempt \/ TestMain

\* The script runs to its end: every request times out after 30 s and
\* every sleep ends.
SpecTest == InitTest /\ [][NextTest]_vars /\ WF_vars(NextTest)

\* ================================================================ claims
Done(r) == pc[r] = "done"
Parsed(r) == Parses(latitude[r]) /\ Parses(longitude[r])
\* The primary session gave up or returned a non-success status.
NetworkFailed(r) == primary_error[r] \in {"RetryError", "HTTPError"}
\* The primary path ended in an exception (network or extraction).
PrimaryFailed(r) == primary_error[r] # NoException
\* The fallback returned a forecast object the reading can be taken from.
ForecastProduced(r) == fallback_result[r] \in {"full", "no_current_weather"}
Success(r) == response[r].status = 200 /\ response[r].kind = "data"
Endpoint(r) == response[r].data.endpoint_used

\* C1: when the primary fetch fails on every attempt the session makes,
\* fetch_fallback_data is invoked exactly once (never more, at any time),
\* and a fallback that yields a forecast gives 200 with endpoint_used =
\* "standard_forecast".
C1_FallbackOnce ==
    \A r \in Requests :
        /\ fallback_calls[r] <= 1
        /\ (Done(r) /\ Parsed(r) /\ NetworkFailed(r)) =>
              /\ fallback_calls[r] = 1
              /\ ForecastProduced(r) =>
                    Success(r) /\ Endpoint(r) = "standard_forecast"

C1_Witness ==
    \E r \in Requests :
        /\ Done(r) /\ primary_error[r] = "RetryError"
        /\ attempts[r] = retries + 1
        /\ fallback_result[r] = "no_current_weather"
        /\ Success(r)

\* C2: when the primary fetch fails and the fallback fails too (transport
\* error, non-success status or undecodable body), the response is 500
\* with the generic message and nothing is raised out of get.
C2_BothFail500 ==
    \A r \in Requests :
        (Done(r) /\ Parsed(r) /\ PrimaryFailed(r)
            /\ fallback_result[r] \in FallbackFailures) =>
                /\ response[r].kind = "error"
                /\ response[r].status = 500
                /\ response[r].generic

\* C3: a latitude or longitude that is not a number gives 400 with the
\* parse error, and neither upstream is called.
C3_Unparseable400 ==
    \A r \in Requests :
        (Done(r) /\ ~Parsed(r)) =>
            /\ response[r].kind = "error"
            /\ response[r].status = 400
            /\ marine_calls[r] = 0 /\ attempts[r] = 0
            /\ fallback_calls[r] = 0

\* C4 as claimed: a LAND coordinate ends in 400 and no upstream call.
C4_LandRejected ==
    \A r \in Requests :
        (Done(r) /\ Parsed(r) /\ IsLand(lat_f(r), lon_f(r))) =>
            /\ response[r].status = 400
            /\ marine_calls[r] = 0 /\ attempts[r] = 0
            /\ fallback_calls[r] = 0

\* C4 as amended: a LAND coordinate is not gated; the primary fetcher is
\* invoked for it as for any coordinate, and the request either succeeds
\* with 200 or has gone through the fallback.
C4_LandNotGated ==
    \A r \in Requests :
        (Done(r) /\ Parsed(r) /\ IsLand(lat_f(r), lon_f(r))) =>
            /\ marine_calls[r] = 1
            /\ response[r].status = 200 \/ fallback_calls[r] = 1

C4_Witness ==
    \E r \in Requests :
        /\ Done(r) /\ Parsed(r) /\ IsLand(lat_f(r), lon_f(r))
        /\ attempts[r] = 1 /\ Success(r) /\ Endpoint(r) = "marine"

\* No network attempt of the request failed.
Healthy(r) == attempts[r] <= 1 /\ ~NetworkFailed(r)

\* C5 as claimed: two requests with identical coordinates, the second
\* (b) issued within expire_after of the first (a), primary healthy:
\* exactly one network call to the primary source is made in total.
C5_OneCallWithinTtl ==
    \A a, b \in Requests :
        (/\ a < b /\ Done(a) /\ Done(b) /\ Parsed(a) /\ Parsed(b)
         /\ Key(a) = Key(b)
         /\ issued_at[b] - issued_at[a] < expire_after
         /\ Healthy(a) /\ Healthy(b)) =>
            attempts[a] + attempts[b] = 1

\* C5 as amended: when the second request arrives after the first has
\* returned and looks the cache up less than expire_after after the first's
\* response was stored, one network call is made in total and the second
\* request is served the first's payload from the cache.
C5_OneCallAfterReturn ==
    \A a, b \in Requests :
        (/\ a \in issued_after[b] /\ Done(b) /\ Parsed(a) /\ Parsed(b)
         /\ Key(a) = Key(b)
         /\ Healthy(a) /\ Healthy(b)
         /\ lookup_at[b] < fetched_at[a] + expire_after) =>
            /\ attempts[a] = 1 /\ attempts[b] = 0
            /\ from_cache[b]
            /\ marine_data[b] = marine_data[a]

C5_Witness ==
    \E a, b \in Requests :
        /\ a \in issued_after[b] /\ Done(b)
        /\ Parsed(a) /\ Parsed(b)
        /\ Key(a) = Key(b)
        /\ attempts[a] = 1 /\ Healthy(a)
        /\ lookup_at[b] = fetched_at[a] + TickStep
        /\ from_cache[b] /\ attempts[b] = 0

\* C6: a request whose primary fetch returned the nine variables answers
\* 200 with endpoint_used = "marine", and each of the nine fields is None
\* or a finite float of magnitude at most 1e5.
C6_MarineSanitized ==
    \A r \in Requests :
        (Done(r) /\ Parsed(r) /\ marine_data[r].shape = "ok") =>
            /\ Success(r)
            /\ Endpoint(r) = "marine"
            /\ DOMAIN response[r].data.weather_data = Range(MarineFields)
            /\ \A f \in Range(MarineFields) :
                  LET x == response[r].data.weather_data[f] IN
                  \/ x = None
                  \/ x.t = "float" /\ Abs(x.v) <= MaxMagnitude

C6_Witness ==
    \E r \in Requests :
        /\ Done(r) /\ marine_data[r].vars = WildVars
        /\ Success(r)
        /\ response[r].data.weather_data["wave_height"] = None
        /\ response[r].data.weather_data["ocean_current_velocity"]
              = PyFloat(MaxMagnitude)

\* C7: clean_value returns None for a value that is no number, for NaN,
\* for an infinity and for a magnitude above 1e5, and the same number for
\* every other int or float (a bool is an int to isinstance).
C7_CleanValue ==
    fn_pc \in {"cleaned", "done"} =>
        IF fn_value.t \notin {"int", "float", "bool"}
            THEN fn_cleaned = None
        ELSE IF Abs(fn_value.v) > MaxMagnitude
            THEN fn_cleaned = None
        ELSE fn_cleaned.t = "float" /\ fn_cleaned.v = fn_value.v

C7_Witness ==
    /\ fn_pc = "cleaned"
    /\ fn_value = PyInt(-MaxMagnitude)
    /\ fn_cleaned = PyFloat(-MaxMagnitude)

\* C8 as claimed: a primary fetch makes at most 5 network attempts.
C8_AtMostFive ==
    \A r \in Requests : attempts[r] <= 5

\* C8 as amended: a primary fetch makes at most 6 network attempts, the
\* first and five retries; it is still attempting only while fewer than 6
\* have been made, and it gives up with a retry error exactly when the
\* sixth attempt has failed.
C8_AtMostSix ==
    \A r \in Requests :
        /\ attempts[r] <= retries + 1
        /\ pc[r] = "network" => attempts[r] <= retries
        /\ primary_error[r] = "RetryError" =>
              attempts[r] = retries + 1 /\ pc[r] \in {"fallback", "done"}

C8_Witness ==
    \E r \in Requests :
        /\ attempts[r] = retries + 1
        /\ primary_error[r] = "RetryError"
        /\ pc[r] = "fallback"

\* C9: every 200 response carries one reading and the label of the path
\* that built it: "marine" exactly when weather_data is the nine cleaned
\* fields of the primary payload, "standard_forecast" exactly when it is
\* the forecast reading of the fallback body.
IsMarineReading(r) ==
    /\ DOMAIN response[r].data.weather_data = Range(MarineFields)
    /\ marine_data[r].shape \in {"ok", "short"}
    /\ fallback_calls[r] = 0
    /\ \A i \in 1..Len(marine_data[r].vars) :
          response[r].data.weather_data[MarineFields[i]]
              = clean_value(marine_data[r].vars[i])

IsForecastReading(r) ==
    /\ DOMAIN response[r].data.weather_data = Range(ForecastFields)
    /\ fallback_calls[r] = 1
    /\ fallback_result[r] \in ForecastBodies
    /\ response[r].data.weather_data["temperature_2m"]
          = CwGet(fallback_result[r], "temperature")
    /\ response[r].data.weather_data["relativehumidity_2m"] = None

C9_OneReading ==
    \A r \in Requests :
        (Done(r) /\ response[r].status = 200) =>
            /\ response[r].kind = "data"
            /\ Endpoint(r) \in {"marine", "standard_forecast"}
            /\ Endpoint(r) = "marine" <=> IsMarineReading(r)
            /\ Endpoint(r) = "standard_forecast" <=> IsForecastReading(r)

C9_Witness ==
    \E r \in Requests :
        /\ Done(r) /\ response[r].status = 200
        /\ Endpoint(r) = "standard_forecast"
        /\ marine_data[r].shape = "empty"
        /\ fallback_result[r] = "full"

\* C10: when json.dumps fails on the assembled payload, validate_json
\* logs, returns the empty object and the request answers 200 with it;
\* when it succeeds the payload is returned unchanged.
C10_SerializationRecovered ==
    fn_pc = "done" =>
        IF JsonDumps(fn_data) = "ok"
            THEN /\ fn_response.status = 200 /\ fn_response.kind = "data"
                 /\ fn_response.data = fn_data
        ELSE /\ validate_json(fn_data).logged
             /\ fn_response.status = 200 /\ fn_response.kind = "empty"

\* ------------------------------------------------------------------ C11
Events(r) == {log[r][i] : i \in 1..Len(log[r])}

\* The exception a request that did not succeed ended on.
Failed(r) == Done(r) /\ response[r].kind \in {"error", "raised"}

\* C11: every non-success path is logged before the request ends: a request
\* that turned to the fallback has a log event holding the input coordinate
\* and the primary failure, and a request that ended on an error has a log
\* event reporting the exception it ended on.
C11_FailuresLogged ==
    \A r \in Requests :
        /\ (pc[r] = "fallback" \/ fallback_calls[r] > 0)
              => WarningEvent(primary_error[r]) \in Events(r)
        /\ Failed(r) => \E e \in Events(r) : e.cause = response[r].exc

\* ------------------------------------------------------------------ C13
\* The coordinate a request is to be served for, written out per input.
ExpectedLatitude(r) ==
    IF latitude[r] = "absent" THEN 54544587 ELSE 52520000
ExpectedLongitude(r) ==
    IF longitude[r] = "absent" THEN 10227487 ELSE 13400000

\* C13: an omitted latitude stands for 54.544587 and an omitted longitude
\* for 10.227487, a supplied value replaces the default, and a request is
\* never turned away for a parameter it omits: it goes on to the primary
\* source, and the reading it returns is for the expected coordinate.
C13_Defaults ==
    \A r \in Requests :
        /\ (Done(r) /\ latitude[r] = "absent" /\ longitude[r] = "absent")
              => marine_calls[r] = 1 /\ response[r].kind # "raised"
        /\ (Done(r) /\ Parsed(r) /\ Success(r)) =>
              /\ response[r].data.latitude = PyFloat(ExpectedLatitude(r))
              /\ response[r].data.longitude = PyFloat(ExpectedLongitude(r))

C13_Witness ==
    \E r \in Requests :
        /\ Done(r) /\ Success(r)
        /\ latitude[r] = "absent" /\ longitude[r] = "13.40"
        /\ response[r].data.latitude = PyFloat(DefaultLatitude)
        /\ response[r].data.longitude = PyFloat(13400000)

\* ------------------------------------------------------------------ C14
\* C14: within one request the primary fetcher is called at most once and
\* before any fallback call, the fallback fetcher is called only after
\* the primary path of that request failed, and at most once; a request
\* whose primary fetch and extraction succeeded makes no fallback call.
C14_PrimaryThenFallback ==
    \A r \in Requests :
        /\ marine_calls[r] <= 1
        /\ fallback_calls[r] <= 1
        /\ (pc[r] = "fallback" \/ fallback_calls[r] > 0)
              => marine_calls[r] = 1 /\ PrimaryFailed(r)
        /\ (Done(r) /\ marine_calls[r] = 1 /\ ~PrimaryFailed(r))
              => fallback_calls[r] = 0 /\ fallback_result[r] = "none"

C14_Witness ==
    \E r \in Requests :
        /\ Done(r) /\ marine_calls[r] = 1 /\ fallback_calls[r] = 1
        /\ primary_error[r] = "AttributeError"
        /\ fallback_result[r] = "full"

\* ------------------------------------------------------------------ C15
Malformed(r) == marine_data[r].shape \in {"empty", "nocurrent", "short"}

\* C15: a malformed or incomplete primary payload (an empty list, no
\* current section, fewer than nine variables) is handled as a failure of
\* the primary path: the request records the failure, calls the fallback,
\* and no exception leaves the handler.
C15_MalformedFallsBack ==
    \A r \in Requests :
        (Done(r) /\ Malformed(r)) =>
            /\ PrimaryFailed(r)
            /\ fallback_calls[r] = 1
            /\ response[r].kind # "raised"
            /\ Endpoint(r) # "marine"

\* ------------------------------------------------------------------ C16
\* The age of a cache entry: an entry expires expire_after after it was
\* written.
Age(entry, t) == t - (entry.expires - 3600)

\* C16: an entry older than the 3600 s TTL is never served: the lookup
\* that finds one treats it as absent and goes to the network.
C16_ExpiredNotServed ==
    [][\A r \in Requests :
          (/\ pc[r] = "marine" /\ pc'[r] # "marine"
           /\ cache[Key(r)].present
           /\ Age(cache[Key(r)], now) > 3600)
              => /\ pc'[r] = "network"
                 /\ ~from_cache'[r]
                 /\ marine_data'[r] = NoPayload]_vars

C16_Witness ==
    \E r \in Requests :
        /\ pc[r] = "network" /\ attempts[r] = 0 /\ ~from_cache[r]
        /\ cache[Key(r)].present
        /\ Age(cache[Key(r)], lookup_at[r]) > 3600

\* ------------------------------------------------------------------ C17
\* A step in which request r tries the primary upstream and gets no
\* answer with status 200.
FailedAttempt(r) ==
    /\ pc[r] = "network"
    /\ attempts'[r] = attempts[r] + 1
    /\ pc'[r] \in {"network", "fallback"}

\* C17: only a successful primary response is written to the cache.  A
\* failed attempt (transport failure or non-success status) leaves the
\* cache unchanged, a change of the cache is the storing of the payload a
\* successful attempt received, and the lookup of an identical request
\* that follows a request whose attempts failed finds nothing and goes to
\* the network.
C17_FailuresNotCached ==
    [][/\ \A r \in Requests : FailedAttempt(r) => cache' = cache
       /\ cache' # cache =>
            \E r \in Requests :
                /\ pc[r] = "network" /\ pc'[r] = "extract"
                /\ cache'[Key(r)].payload = marine_data'[r]
                /\ \A k \in Keys \ {Key(r)} : cache'[k] = cache[k]
       /\ \A a, b \in Requests :
            (/\ pc[b] = "marine" /\ pc'[b] # "marine"
             /\ a \in issued_after[b] /\ Parsed(a) /\ NetworkFailed(a)
             /\ Key(a) = Key(b)
             /\ \A q \in Requests \ {a, b} : attempts[q] = 0)
                => pc'[b] = "network" /\ ~from_cache'[b]]_vars

C17_Witness ==
    \E a, b \in Requests :
        /\ a # b /\ Done(a) /\ Parsed(a) /\ NetworkFailed(a)
        /\ attempts[a] >= 1
        /\ pc[b] = "network" /\ a \in issued_after[b]
        /\ Key(a) = Key(b)
        /\ ~cache[Key(b)].present

\* ------------------------------------------------------------------ C18
TestEnded == t_pc \in {"returned", "raised", "passed", "failed"}

\* The attempts that failed with a request exception, which the loop
\* catches.
Retried == {j \in 1..Len(t_history) : t_history[j].caught}

\* C18: the loop of test.py makes at most three attempts and then ends;
\* it returns the payload of the first successful attempt; after failed
\* attempt i (0, 1, 2, the last one included) it has slept 2^i seconds;
\* and it raises RuntimeError exactly when all three attempts failed with
\* a request exception.
C18_TestLoop ==
    /\ [](/\ Len(t_history) <= 3
          /\ \A j \in 1..Len(t_history) - 1 : j \in Retried
          /\ Len(t_sleeps) = Cardinality(Retried)
          /\ \A j \in 1..Len(t_sleeps) :
                t_sleeps[j] = CASE j = 1 -> 1 [] j = 2 -> 2 [] OTHER -> 4
          /\ t_result \in TestPayloads =>
                t_history[Len(t_history)].payload = t_result
          /\ TestEnded =>
                (t_result = "RuntimeError"
                    <=> (Len(t_history) = 3 /\ Retried = 1..3)))
    /\ <>TestEnded

C18_Witness ==
    /\ t_pc = "failed"
    /\ t_result = "RuntimeError"
    /\ t_sleeps = <<1, 2, 4>>
    /\ Len(t_history) = 3

\* ------------------------------------------------------------------ C19
\* C19: every request ends in exactly one response, with status 200, 400
\* or 500, and no exception leaves get at any step, the parsing of the
\* coordinate included.
C19_OneTerminalOutcome ==
    \A r \in Requests :
        /\ Done(r) => /\ response[r].kind \in {"data", "empty", "error"}
                      /\ response[r].status \in {200, 400, 500}
        /\ ~Done(r) => response[r] = NoResponse

============================================================================
